---- MODULE Spec2Model ----
(***************************************************************************)
(* Model of plex_discord_bot.py: the PlexDiscordBot client that mirrors a  *)
(* Plex library into a Discord channel.  A cycle (the update_library timer *)
(* task or an on_message manual command) fetches the library, computes the *)
(* new items against last_known_content, deletes the retained messages and *)
(* posts a header plus chunked lists.  Every await of a Discord call is a  *)
(* step of the model; the code between two awaits is atomic, as it is      *)
(* under the cooperative event loop.                                       *)
(***************************************************************************)
EXTENDS Integers, Sequences, FiniteSets, TLC

\* ------------------------------------------------------------------------
\* Bounds of the model
\* ------------------------------------------------------------------------

\* number of cycles (timer or manual) a behaviour may start
MaxCycles == 2

\* number of changes the Plex library undergoes in a behaviour
MaxChanges == 1

\* ------------------------------------------------------------------------
\* State
\* ------------------------------------------------------------------------

VARIABLES
    plexLib,             \* the Plex server's library: [movies, shows], sets of entries
    nchanges,            \* library changes so far
    plex,                \* self.plex: "None" or "PlexServer"
    channel,             \* self.channel: "None" or "TextChannel"
    ready,               \* on_ready has run
    started,             \* update_library.start() was called
    last_known_content,  \* self.last_known_content
    library_messages,    \* self.library_messages: the handles (message ids) retained
    channel_messages,    \* the library messages now in the Discord channel (ids)
    cyc,                 \* per task: the await it is suspended at, and its locals
    hist,                \* per task: what its current (or last) cycle did
    last,                \* the cycle that last assigned last_known_content
    lastPublished,       \* keys fetched by the last cycle whose publish sent every block
    ncycles              \* cycles started so far

vars == <<plexLib, nchanges, plex, channel, ready, started, last_known_content,
          library_messages, channel_messages, cyc, hist, last, lastPublished, ncycles>>

\* ------------------------------------------------------------------------
\* Strings.  A text is a finite sequence of character codes followed by a
\* run of "x": [head |-> <<66, 101>>, pad |-> 3] is "Bexxx" (120 is "x").
\* ------------------------------------------------------------------------

Str(h, p) == [head |-> h, pad |-> p]

StrLen(s) == Len(s.head) + s.pad

\* str.lower() on one character code (ASCII letters)
LowerChar(c) == IF c >= 65 /\ c <= 90 THEN c + 32 ELSE c

\* x['title'].lower(): the sort key of post_complete_library
LowerStr(s) == [head |-> [i \in 1..Len(s.head) |-> LowerChar(s.head[i])], pad |-> s.pad]

CharAt(s, i) == IF i <= Len(s.head) THEN s.head[i] ELSE 120

MinOf(a, b) == IF a <= b THEN a ELSE b

MaxOf(a, b) == IF a >= b THEN a ELSE b

\* Python's str <: lexicographic by code point, a proper prefix is smaller.
\* Past both heads the two texts hold "x" only, so the first difference,
\* if any, lies within the longer head.
StrLess(a, b) ==
    LET n == MinOf(StrLen(a), StrLen(b))
        m == MinOf(n, MaxOf(Len(a.head), Len(b.head)))
        D == {i \in 1..m : CharAt(a, i) # CharAt(b, i)}
    IN  IF D = {}
        THEN StrLen(a) < StrLen(b)
        ELSE LET i == CHOOSE j \in D : \A k \in D : j <= k
             IN  CharAt(a, i) < CharAt(b, i)

\* ------------------------------------------------------------------------
\* The Plex library: what plexapi returns for the two sections.
\* year = 0 stands for a missing year (movie.year is None).
\* ------------------------------------------------------------------------

\* "Beta" (2001), "Alpha" (1999), "alpha" and 1855 "x" (no year): the movies
\* heading, the third line and the first are 13 + 1873 + 14 = 1900 characters
\* when neither line is marked
MovieEntries ==
    { [ratingKey |-> 1, title |-> Str(<<66, 101, 116, 97>>, 0),         year |-> 2001],
      [ratingKey |-> 2, title |-> Str(<<65, 108, 112, 104, 97>>, 0),    year |-> 1999],
      [ratingKey |-> 3, title |-> Str(<<97, 108, 112, 104, 97>>, 1855), year |-> 0] }

\* "g" and 1989 "x" (2020): a line of 2000 characters unmarked
ShowEntries ==
    { [ratingKey |-> 1, title |-> Str(<<103>>, 1989), year |-> 2020] }

\* ------------------------------------------------------------------------
\* get_library_content
\* ------------------------------------------------------------------------

\* the ways one fetch can go: both sections answer, the movies query raises,
\* or the movies query answers and the shows query raises
FetchOutcomes == {"ok", "failMovies", "failShows"}

\* str() of a positive integer, as character codes
RECURSIVE Digits(_)
Digits(n) == IF n < 10 THEN <<48 + n>> ELSE Append(Digits(n \div 10), 48 + (n % 10))

\* movie.year or 'Unknown', as the text the f-strings render
YearOf(y) == IF y = 0 THEN Str(<<85, 110, 107, 110, 111, 119, 110>>, 0) ELSE Str(Digits(y), 0)

MovieItem(m) ==
    [key |-> <<"movie", m.ratingKey>>, title |-> m.title, year |-> YearOf(m.year),
     type |-> "clapper", category |-> "Movies"]

ShowItem(s) ==
    [key |-> <<"show", s.ratingKey>>, title |-> s.title, year |-> YearOf(s.year),
     type |-> "tv", category |-> "TV Shows"]

\* the entries of S by ascending ratingKey
RECURSIVE Ascending(_)
Ascending(S) ==
    IF S = {} THEN <<>>
    ELSE LET e == CHOOSE x \in S : \A y \in S : x.ratingKey <= y.ratingKey
         IN  <<e>> \o Ascending(S \ {e})

Reverse(q) == [i \in 1..Len(q) |-> q[Len(q) + 1 - i]]

\* the orders section.all() may answer in: by ratingKey, either way
SectionOrders(S) == {Ascending(S), Reverse(Ascending(S))}

MapSeq(F(_), q) == [i \in 1..Len(q) |-> F(q[i])]

\* content as get_library_content returns it, given the orders the sections
\* answered in and how the fetch went
LibraryContent(movieOrder, showOrder, outcome) ==
    CASE outcome = "failMovies" -> <<>>
      [] outcome = "failShows"  -> MapSeq(MovieItem, movieOrder)
      [] OTHER                  -> MapSeq(MovieItem, movieOrder) \o MapSeq(ShowItem, showOrder)

\* set(item['key'] for item in current_content)
KeySet(content) == {content[i].key : i \in 1..Len(content)}

\* ------------------------------------------------------------------------
\* new_items (update_library line 84, on_message line 67)
\* ------------------------------------------------------------------------

\* (a variant without the cold-start rule)
NewItems_PlainDifference(current_titles, last_known) == current_titles \ last_known

NewItems(current_titles, last_known) ==
    IF last_known # {} THEN current_titles \ last_known ELSE {}

\* ------------------------------------------------------------------------
\* Rendering (post_complete_library lines 138-141, post_markdown_list)
\* ------------------------------------------------------------------------

\* the 1900 of post_markdown_list: the cap tested before a line is appended
SoftCap == 1900

\* sorted(seq, key=lambda x: x['title'].lower()): a stable insertion sort, an
\* item goes after every item whose key is not greater than its own
RECURSIVE InsertSorted(_, _)
InsertSorted(x, q) ==
    IF q = <<>> THEN <<x>>
    ELSE IF StrLess(LowerStr(x.title), LowerStr(q[1].title)) THEN <<x>> \o q
    ELSE <<q[1]>> \o InsertSorted(x, Tail(q))

\* (a variant that sorts by the title as it is, without lower())
RECURSIVE InsertSortedRaw(_, _)
InsertSortedRaw(x, q) ==
    IF q = <<>> THEN <<x>>
    ELSE IF StrLess(x.title, q[1].title) THEN <<x>> \o q
    ELSE <<q[1]>> \o InsertSortedRaw(x, Tail(q))

RECURSIVE SortedByTitle_CaseSensitive(_)
SortedByTitle_CaseSensitive(q) ==
    IF q = <<>> THEN <<>>
    ELSE InsertSortedRaw(q[Len(q)], SortedByTitle_CaseSensitive(SubSeq(q, 1, Len(q) - 1)))

RECURSIVE SortedByTitle(_)
SortedByTitle(q) ==
    IF q = <<>> THEN <<>>
    ELSE InsertSorted(q[Len(q)], SortedByTitle(SubSeq(q, 1, Len(q) - 1)))

\* [item for item in content if item['category'] == cat]
OfCategory(content, cat) == SelectSeq(content, LAMBDA it : it.category = cat)

\* the title argument of post_markdown_list: an emoji, a space, the name
ListTitle(cat) ==
    IF cat = "Movies" THEN Str(<<127916, 32, 77, 111, 118, 105, 101, 115>>, 0)
    ELSE Str(<<128250, 32, 84, 86, 32, 83, 104, 111, 119, 115>>, 0)

\* A message text is a sequence of segments: the heading f"## {title}\n\n"
\* or one item line f"• {marker}{title} ({year})\n".
Heading(cat) ==
    [kind |-> "heading", key |-> <<"none", 0>>, marker |-> FALSE,
     title |-> ListTitle(cat), year |-> Str(<<>>, 0)]

\* (a variant that marks every item absent from last_known_content)
Marker_NotKnown(item, new_items) == item.key \notin last_known_content

\* marker = "🆕 " if item['key'] in (new_items or set()) else ""
Marker(item, new_items) == item.key \in new_items

Line(item, new_items) ==
    [kind |-> "line", key |-> item.key, marker |-> Marker(item, new_items),
     title |-> item.title, year |-> item.year]

\* len() of one segment, in characters
SegLen(g) ==
    IF g.kind = "heading" THEN 3 + StrLen(g.title) + 2
    ELSE 2 + (IF g.marker THEN 2 ELSE 0) + StrLen(g.title) + 2 + StrLen(g.year) + 2

RECURSIVE TextLen(_)
TextLen(t) == IF t = <<>> THEN 0 ELSE SegLen(t[1]) + TextLen(Tail(t))

\* len(current_message + line) > 1900
Overflows(cur, line) == TextLen(cur) + SegLen(line) > SoftCap

\* (a variant that starts the next chunk empty, losing the line)
AfterFlush_Empty(line) == <<>>

\* what the flush branch leaves in current_message
AfterFlush(line) == <<line>>

\* The for loop of post_markdown_list from item i on, up to its next await:
\* a chunk to send (the loop goes on after it) or the end of the loop.
RECURSIVE ListRun(_, _, _, _)
ListRun(items, i, cur, new_items) ==
    IF i > Len(items) THEN [at |-> "end", msg |-> cur, i |-> i, cur |-> cur]
    ELSE LET line == Line(items[i], new_items)
         IN  IF Overflows(cur, line)
             THEN [at |-> "chunk", msg |-> cur, i |-> i + 1, cur |-> AfterFlush(line)]
             ELSE ListRun(items, i + 1, cur \o <<line>>, new_items)

\* if current_message.strip() and current_message != f"## {title}\n\n"
SendsFinal(cur, cat) == cur # <<>> /\ cur # <<Heading(cat)>>

\* the embed of the header: the counts and the first ten new items, in
\* content order
FirstTen(q) == SubSeq(q, 1, MinOf(Len(q), 10))

Embed(content, movies, shows, new_items) ==
    [movies |-> Len(movies), shows |-> Len(shows),
     recent |-> IF new_items # {}
                THEN FirstTen(MapSeq(LAMBDA it : it.key,
                                     SelectSeq(content, LAMBDA it : it.key \in new_items)))
                ELSE <<>>]

\* ------------------------------------------------------------------------
\* Tasks, records and the initial state
\* ------------------------------------------------------------------------

\* the update_library loop and one on_message handler
Procs == {"timer", "manual"}

\* what a Discord call (send, delete, edit) may do
CallOutcomes == {"ok", "Forbidden", "HTTPException"}

\* how the record of a cycle keeps the outcome of a call whose exceptions
\* the code all handles alike
Kept(o) == IF o = "ok" THEN "ok" ELSE "error"

IdleLocals ==
    [pc |-> "idle", content |-> <<>>, current_titles |-> {}, new_items |-> {},
     movies |-> <<>>, shows |-> <<>>, k |-> 0, live |-> FALSE, dl |-> <<>>,
     hit |-> FALSE, cat |-> "none", i |-> 0, cur |-> <<>>, msg |-> <<>>, final |-> FALSE]

NoLast == [kind |-> "none", n |-> 0, fetch |-> "none", fetched |-> {}, lib |-> {}]

NoHist ==
    [kind |-> "none", n |-> 0, at |-> 0, pre |-> {}, fetch |-> "none", fetched |-> {},
     lib |-> {}, new_items |-> {}, libBefore |-> <<>>, ops |-> <<>>, delFailed |-> 0,
     pub |-> "none", ack |-> "none", edit |-> "none", reply |-> "none",
     assigned |-> FALSE, prev |-> NoLast]

NoEmbed == [movies |-> 0, shows |-> 0, recent |-> <<>>]

\* the keys of everything in the library now
LibKeys(lib) ==
    {<<"movie", m.ratingKey>> : m \in lib.movies} \cup {<<"show", s.ratingKey>> : s \in lib.shows}

Init ==
    /\ plexLib \in {[movies |-> {}, shows |-> {}],
                    [movies |-> {m \in MovieEntries : m.ratingKey = 1}, shows |-> {}]}
    /\ nchanges = 0
    /\ plex = "None"
    /\ channel = "None"
    /\ ready = FALSE
    /\ started = FALSE
    /\ last_known_content = {}
    /\ library_messages = <<>>
    /\ channel_messages = {}
    /\ cyc = [p \in Procs |-> IdleLocals]
    /\ hist = [p \in Procs |-> NoHist]
    /\ last = NoLast
    /\ lastPublished = {}
    /\ ncycles = 0

\* ------------------------------------------------------------------------
\* The environment: the library changes, on_ready
\* ------------------------------------------------------------------------

\* an entry is added to or removed from a section of the Plex library.  The
\* library is read by the fetch alone, so a change during a publish is the
\* same change made before the next fetch, and a change no fetch follows is
\* never seen.
LibraryChange ==
    /\ \A p \in Procs : cyc[p].pc \in {"idle", "ack"}
    /\ ncycles < MaxCycles \/ \E p \in Procs : cyc[p].pc = "ack"
    /\ nchanges < MaxChanges
    /\ nchanges' = nchanges + 1
    /\ \/ \E m \in MovieEntries :
            plexLib' = [plexLib EXCEPT !.movies =
                           IF m \in @ THEN @ \ {m} ELSE @ \cup {m}]
       \/ \E t \in ShowEntries :
            plexLib' = [plexLib EXCEPT !.shows =
                           IF t \in @ THEN @ \ {t} ELSE @ \cup {t}]
    /\ UNCHANGED <<plex, channel, ready, started, last_known_content, library_messages,
                   channel_messages, cyc, hist, last, lastPublished, ncycles>>

\* on_ready: connect to Plex, look the channel up, start the loop; either
\* failure returns early
OnReady(outcome) ==
    /\ ~ready
    /\ ready' = TRUE
    /\ plex' = IF outcome = "plexFail" THEN "None" ELSE "PlexServer"
    /\ channel' = IF outcome = "ok" THEN "TextChannel" ELSE "None"
    /\ started' = (outcome = "ok")
    /\ UNCHANGED <<plexLib, nchanges, last_known_content, library_messages,
                   channel_messages, cyc, hist, last, lastPublished, ncycles>>

\* ------------------------------------------------------------------------
\* One cycle, from await to await
\* ------------------------------------------------------------------------

\* get_library_content against the library as it is now; self.plex being
\* None raises inside the try, before the movies query
Fetch(outcome, movieOrder, showOrder) ==
    LibraryContent(movieOrder, showOrder, IF plex = "None" THEN "failMovies" ELSE outcome)

\* post_complete_library has returned (or swallowed its exception): the
\* timer task ends its iteration, on_message goes on to msg.edit
PublishReturn(p) ==
    IF p = "timer" THEN IdleLocals ELSE [IdleLocals EXCEPT !.pc = "edit"]

RECURSIVE AfterList(_, _, _)

\* post_markdown_list from item i with current_message cur, to its next await
ContinueList(p, c, cat, i, cur) ==
    LET items == IF cat = "Movies" THEN c.movies ELSE c.shows
        r == ListRun(items, i, cur, c.new_items)
    IN  IF r.at = "chunk"
        THEN [c EXCEPT !.pc = "chunk", !.cat = cat, !.i = r.i, !.cur = r.cur,
                       !.msg = r.msg, !.final = FALSE]
        ELSE IF SendsFinal(r.cur, cat)
        THEN [c EXCEPT !.pc = "chunk", !.cat = cat, !.i = r.i, !.cur = r.cur,
                       !.msg = r.cur, !.final = TRUE]
        ELSE AfterList(p, c, cat)

\* current_message = f"## {title}\n\n", then the loop
EnterList(p, c, cat) == ContinueList(p, c, cat, 1, <<Heading(cat)>>)

\* lines 168-171: after the movies list, the shows list if there are shows
AfterList(p, c, cat) ==
    IF cat = "Movies" /\ c.shows # <<>> THEN EnterList(p, c, "TV Shows")
    ELSE PublishReturn(p)

\* (a variant that posts the shows list first and ends the publish after it)
AfterHeader_ShowsFirst(p, c0) ==
    LET c == [c0 EXCEPT !.content = <<>>]
    IN  IF c.shows # <<>> THEN EnterList(p, c, "TV Shows")
        ELSE IF c.movies # <<>> THEN EnterList(p, c, "Movies")
        ELSE PublishReturn(p)

\* lines 168-171 after the header was sent
AfterHeader(p, c0) ==
    LET c == [c0 EXCEPT !.content = <<>>]
    IN  IF c.movies # <<>> THEN EnterList(p, c, "Movies")
        ELSE IF c.shows # <<>> THEN EnterList(p, c, "TV Shows")
        ELSE PublishReturn(p)

\* lines 138-165: clear_old_messages is over; sort the two categories and go
\* to the header send.  self.channel being None raises there, which
\* post_complete_library swallows.
ToHeader(p, c) ==
    IF channel = "None" THEN PublishReturn(p)
    ELSE [c EXCEPT !.pc = "header",
                   !.movies = SortedByTitle(OfCategory(c.content, "Movies")),
                   !.shows = SortedByTitle(OfCategory(c.content, "TV Shows")),
                   !.k = 0, !.live = FALSE, !.dl = <<>>, !.hit = FALSE]

\* post_complete_library entered: clear_old_messages starts iterating the
\* list self.library_messages is bound to (every handle in it was sent by
\* the bot, so each one is deleted)
EnterPublish(p, c) ==
    IF library_messages = <<>> THEN ToHeader(p, c)
    ELSE [c EXCEPT !.pc = "delete", !.k = 1, !.live = TRUE,
                   !.hit = library_messages[1] \in channel_messages]

\* (a variant in which the manual command, like the timer, publishes on a
\* non-empty delta only)
Sync_OnlyOnDelta(p, content) ==
    LET titles == KeySet(content)
        c == [IdleLocals EXCEPT !.content = content, !.current_titles = titles,
                                !.new_items = NewItems(titles, last_known_content)]
    IN  IF c.new_items = {} THEN PublishReturn(p)
        ELSE EnterPublish(p, c)

\* (a variant in which the timer publishes whether or not anything is new)
Sync_Always(p, content) ==
    LET titles == KeySet(content)
        c == [IdleLocals EXCEPT !.content = content, !.current_titles = titles,
                                !.new_items = NewItems(titles, last_known_content)]
    IN  EnterPublish(p, c)

\* lines 82-87 / 65-68 after the fetch: the key set, the new items, and the
\* publish: always for a manual command, on a non-empty delta for the timer
Sync(p, content) ==
    LET titles == KeySet(content)
        c == [IdleLocals EXCEPT !.content = content, !.current_titles = titles,
                                !.new_items = NewItems(titles, last_known_content)]
    IN  IF p = "timer" /\ c.new_items = {} THEN PublishReturn(p)
        ELSE EnterPublish(p, c)

\* (a variant that adds the fetched keys to the known ones)
Assigned_Accumulate(current_titles) == current_titles \cup last_known_content

\* the value line 88 / 69 assigns to self.last_known_content
Assigned(current_titles) == current_titles

\* The step of task p is over: its locals are c2, its record h2, the retained
\* list lib2.  inSync: the step ran inside lines 82-88 / 65-69, so reaching
\* the end of the publish also runs the assignment of last_known_content
\* (titles is current_titles).  rebind: the step ran line 133, which binds
\* self.library_messages to a new list; an iteration another task has under
\* way keeps the old list object.  The record of a finished cycle is kept
\* until another cycle starts.  Its pub says how the publish went: "none" (no
\* publish), "ok" (every send returned), "failed" (a send raised) or
\* "nochannel" (self.channel was None).
Commit(p, c2, h2, lib2, titles, inSync, rebind) ==
    LET returned == inSync /\ c2.pc \in {"idle", "edit"}
        h3 == IF returned
              THEN [h2 EXCEPT !.assigned = TRUE,
                              !.pub = IF @ = "run"
                                      THEN (IF channel = "None" THEN "nochannel" ELSE "ok")
                                      ELSE @]
              ELSE h2
    IN  /\ cyc' = [q \in Procs |->
                     IF q = p THEN c2
                     ELSE IF rebind /\ cyc[q].pc = "delete" /\ cyc[q].live
                     THEN [cyc[q] EXCEPT !.live = FALSE, !.dl = library_messages]
                     ELSE cyc[q]]
        /\ hist' = [q \in Procs |->
                      IF q = p THEN h3
                      ELSE IF h2.n # hist[p].n /\ cyc[q].pc = "idle"
                      THEN NoHist
                      ELSE hist[q]]
        /\ library_messages' = lib2
        /\ last_known_content' = IF returned THEN Assigned(titles) ELSE last_known_content
        /\ last' = IF returned
                   THEN [kind |-> h3.kind, n |-> h3.n, fetch |-> h3.fetch,
                         fetched |-> h3.fetched, lib |-> h3.lib]
                   ELSE last
        /\ lastPublished' = IF returned /\ h3.pub = "ok" THEN h3.fetched ELSE lastPublished
        /\ UNCHANGED <<plexLib, nchanges, plex, channel, ready, started>>

\* the record of a cycle at its fetch; at orders the fetches of the cycles
\* under way
AtFetch(h, outcome, content) ==
    LET titles == KeySet(content)
        news == NewItems(titles, last_known_content)
    IN  [h EXCEPT !.at = 1 + MaxOf(hist["timer"].at, hist["manual"].at),
                  !.pre = last_known_content,
                  !.fetch = IF plex = "None" THEN "failMovies" ELSE outcome,
                  !.fetched = titles, !.lib = LibKeys(plexLib), !.new_items = news,
                  !.libBefore = library_messages, !.prev = last,
                  !.pub = IF h.kind = "timer" /\ news = {} THEN "none" ELSE "run"]

\* update_library: one iteration of the loop, from its start to its first
\* await (or to its end when nothing is new)
TimerStart(outcome, movieOrder, showOrder) ==
    /\ started
    /\ cyc["timer"].pc = "idle"
    /\ ncycles < MaxCycles
    /\ ncycles' = ncycles + 1
    /\ UNCHANGED channel_messages
    /\ LET content == Fetch(outcome, movieOrder, showOrder)
           h == AtFetch([NoHist EXCEPT !.kind = "timer", !.n = ncycles + 1], outcome, content)
       IN  Commit("timer", Sync("timer", content), h, library_messages,
                  KeySet(content), TRUE, FALSE)

\* a message event as on_message sees it
Messages ==
    [fromBot : BOOLEAN, inChannel : BOOLEAN,
     content : {"!sync", "!update", "!refresh", "hello"}]

\* on_message up to its first await, the acknowledgment send: a message
\* from a bot, from another channel or that is no command is ignored
ManualStart(p, message) ==
    /\ p # "timer"
    /\ cyc[p].pc = "idle"
    /\ ncycles < MaxCycles
    /\ ~message.fromBot
    /\ message.inChannel
    /\ message.content \in {"!sync", "!update", "!refresh"}
    /\ ncycles' = ncycles + 1
    /\ UNCHANGED channel_messages
    /\ Commit(p, [IdleLocals EXCEPT !.pc = "ack"],
              [NoHist EXCEPT !.kind = "manual", !.n = ncycles + 1],
              library_messages, {}, FALSE, FALSE)

\* the acknowledgment send returns: on success the fetch, the delta and the
\* entry into post_complete_library; on an exception the error reply
AckDone(p, o, outcome, movieOrder, showOrder) ==
    /\ cyc[p].pc = "ack"
    /\ UNCHANGED <<ncycles, channel_messages>>
    /\ IF o = "ok"
       THEN LET content == Fetch(outcome, movieOrder, showOrder)
                h == AtFetch([hist[p] EXCEPT !.ack = Kept(o)], outcome, content)
            IN  Commit(p, Sync(p, content), h, library_messages,
                       KeySet(content), TRUE, FALSE)
       ELSE Commit(p, [IdleLocals EXCEPT !.pc = "reply"], [hist[p] EXCEPT !.ack = Kept(o)],
                   library_messages, {}, FALSE, FALSE)

\* the record of one message.delete(); which deletion failed first, if any,
\* is kept in delFailed
DeleteRecord(id) ==
    [op |-> "delete", what |-> "none", text |-> <<>>, embed |-> NoEmbed,
     outcome |-> "none", id |-> id]

\* (a variant in which a deletion that raised ends the loop)
DeleteContinues_AbortOnError(k, L, o) == o = "ok" /\ k < Len(L)

\* the for loop of clear_old_messages after the deletion of L[k] returned or
\* raised (both except clauses only log): it goes on while handles remain
DeleteContinues(k, L, o) == k < Len(L)

\* (a variant in which line 133 keeps the list as it is)
Cleared_Kept == library_messages

\* line 133: self.library_messages = []
Cleared == <<>>

\* message.delete() of clear_old_messages returns; an exception is logged.
\* The loop goes on with the next handle of the list it iterates, or ends
\* and binds self.library_messages to a new empty list.  A deletion returns
\* only if the message was in the channel when the deletion was requested
\* (hit); of two deletions of one message that are both under way, either
\* may return or raise.
DeleteDone(p, o) ==
    /\ cyc[p].pc = "delete"
    /\ o = "ok" => cyc[p].hit
    /\ UNCHANGED ncycles
    /\ LET c == cyc[p]
           L == IF c.live THEN library_messages ELSE c.dl
           h == [hist[p] EXCEPT !.ops = Append(@, DeleteRecord(L[c.k])),
                                !.delFailed = IF o # "ok" /\ @ = 0 THEN c.k ELSE @]
           gone == IF o = "ok" THEN channel_messages \ {L[c.k]} ELSE channel_messages
       IN  /\ channel_messages' = gone
           /\ IF DeleteContinues(c.k, L, o)
              THEN Commit(p, [c EXCEPT !.k = c.k + 1, !.hit = L[c.k + 1] \in gone], h,
                          library_messages, c.current_titles, TRUE, FALSE)
              ELSE Commit(p, ToHeader(p, c), h, Cleared, c.current_titles, TRUE, TRUE)

\* The handle of the message a send of task p creates: a message is named by
\* the cycle that sent it and its rank among those the cycle sent.
NewHandle(p) ==
    <<hist[p].n, 1 + Cardinality({i \in 1..Len(hist[p].ops) : hist[p].ops[i].outcome = "ok"})>>

\* the record of one send of the publish
SendRecord(p, what, text, embed, o) ==
    [op |-> "send", what |-> what, text |-> text, embed |-> embed, outcome |-> o,
     id |-> IF o = "ok" THEN NewHandle(p) ELSE <<0, 0>>]

\* self.library_messages.append(message) after a send that returned
Appended(p, o) ==
    IF o = "ok" THEN Append(library_messages, NewHandle(p)) ELSE library_messages

\* the channel after a send: a send that returned has posted its message
Posted(p, o) ==
    IF o = "ok" THEN channel_messages \cup {NewHandle(p)} ELSE channel_messages

\* the header send returns: the handle is retained and the lists follow; any
\* exception ends post_complete_library
HeaderDone(p, o) ==
    /\ cyc[p].pc = "header"
    /\ UNCHANGED ncycles
    /\ channel_messages' = Posted(p, o)
    /\ LET c == cyc[p]
           e == Embed(c.content, c.movies, c.shows, c.new_items)
           h == [hist[p] EXCEPT !.ops = Append(@, SendRecord(p, "header", <<>>, e, Kept(o))),
                                !.pub = IF o = "ok" THEN @ ELSE "failed"]
       IN  Commit(p, IF o = "ok" THEN AfterHeader(p, c) ELSE PublishReturn(p), h,
                  Appended(p, o), c.current_titles, TRUE, FALSE)

\* where post_markdown_list goes after a send that raised: Forbidden is
\* caught there (the list is abandoned), anything else leaves
\* post_markdown_list and is caught by post_complete_library
AfterChunkError(p, c, o) ==
    IF o = "Forbidden" THEN AfterList(p, c, c.cat) ELSE PublishReturn(p)

\* a list chunk send returns
ChunkDone(p, o) ==
    /\ cyc[p].pc = "chunk"
    /\ UNCHANGED ncycles
    /\ channel_messages' = Posted(p, o)
    /\ LET c == cyc[p]
           h == [hist[p] EXCEPT !.ops = Append(@, SendRecord(p, c.cat, c.msg, NoEmbed, o)),
                                !.pub = IF o = "ok" THEN @ ELSE "failed"]
           c2 == IF o = "ok"
                 THEN (IF c.final THEN AfterList(p, c, c.cat)
                       ELSE ContinueList(p, c, c.cat, c.i, c.cur))
                 ELSE AfterChunkError(p, c, o)
       IN  Commit(p, c2, h, Appended(p, o), c.current_titles, TRUE, FALSE)

\* msg.edit returns: the handler ends, or its except clause sends a reply
EditDone(p, o) ==
    /\ cyc[p].pc = "edit"
    /\ UNCHANGED <<ncycles, channel_messages>>
    /\ Commit(p, IF o = "ok" THEN IdleLocals ELSE [IdleLocals EXCEPT !.pc = "reply"],
              [hist[p] EXCEPT !.edit = Kept(o)], library_messages, {}, FALSE, FALSE)

\* the error reply of the except clauses returns (or raises out of the handler)
ReplyDone(p, o) ==
    /\ cyc[p].pc = "reply"
    /\ UNCHANGED <<ncycles, channel_messages>>
    /\ Commit(p, IdleLocals, [hist[p] EXCEPT !.reply = Kept(o)], library_messages,
              {}, FALSE, FALSE)

\* ------------------------------------------------------------------------
\* Specification: cycles that do not overlap.  A cycle starts only when no
\* other is under way.
\* ------------------------------------------------------------------------

AllIdle == \A p \in Procs : cyc[p].pc = "idle"

StartTimer ==
    /\ AllIdle
    /\ \E outcome \in FetchOutcomes :
       \E movieOrder \in SectionOrders(plexLib.movies) :
       \E showOrder \in SectionOrders(plexLib.shows) :
           TimerStart(outcome, movieOrder, showOrder)

StartManual ==
    /\ AllIdle
    /\ \E p \in Procs : \E message \in Messages : ManualStart(p, message)

Ack ==
    \E p \in Procs : \E o \in CallOutcomes : \E outcome \in FetchOutcomes :
    \E movieOrder \in SectionOrders(plexLib.movies) :
    \E showOrder \in SectionOrders(plexLib.shows) :
        AckDone(p, o, outcome, movieOrder, showOrder)

Delete == \E p \in Procs : \E o \in CallOutcomes : DeleteDone(p, o)

Header == \E p \in Procs : \E o \in CallOutcomes : HeaderDone(p, o)

Chunk == \E p \in Procs : \E o \in CallOutcomes : ChunkDone(p, o)

Edit == \E p \in Procs : \E o \in CallOutcomes : EditDone(p, o)

Reply == \E p \in Procs : \E o \in CallOutcomes : ReplyDone(p, o)

Ready == \E outcome \in {"ok", "plexFail", "noChannel"} : OnReady(outcome)

Next ==
    \/ Ready
    \/ LibraryChange
    \/ StartTimer
    \/ StartManual
    \/ Ack
    \/ Delete
    \/ Header
    \/ Chunk
    \/ Edit
    \/ Reply

Spec == Init /\ [][Next]_vars

\* ------------------------------------------------------------------------
\* Specification: cycles that overlap.  The timer iteration and the manual
\* command are tasks of one event loop: either may start while the other is
\* suspended at an await.  The behaviours start after an earlier publish of
\* the movie "Beta": its header and its Movies chunk are in the channel and
\* retained.  Every fetch and every send returns; a deletion may raise.
\* ------------------------------------------------------------------------

OverlapInit ==
    /\ plexLib \in {[movies |-> {m \in MovieEntries : m.ratingKey = 1}, shows |-> {}],
                    [movies |-> {m \in MovieEntries : m.ratingKey \in {1, 2}}, shows |-> {}]}
    /\ nchanges = 0
    /\ plex = "PlexServer"
    /\ channel = "TextChannel"
    /\ ready = TRUE
    /\ started = TRUE
    /\ last_known_content = {<<"movie", 1>>}
    /\ library_messages = <<<<0, 1>>, <<0, 2>>>>
    /\ channel_messages = {<<0, 1>>, <<0, 2>>}
    /\ cyc = [p \in Procs |-> IdleLocals]
    /\ hist = [p \in Procs |-> NoHist]
    /\ last = [kind |-> "manual", n |-> 0, fetch |-> "ok", fetched |-> {<<"movie", 1>>},
               lib |-> {<<"movie", 1>>}]
    /\ lastPublished = {<<"movie", 1>>}
    /\ ncycles = 0

\* an entry is added to or removed from the Plex library while a publish is
\* under way and a fetch of the other task can still follow
LibraryChangeDuringPublish ==
    /\ \E p \in Procs : cyc[p].pc \notin {"idle", "ack"}
    /\ ncycles < MaxCycles \/ \E p \in Procs : cyc[p].pc = "ack"
    /\ nchanges < MaxChanges
    /\ nchanges' = nchanges + 1
    /\ \/ \E m \in MovieEntries :
            plexLib' = [plexLib EXCEPT !.movies =
                           IF m \in @ THEN @ \ {m} ELSE @ \cup {m}]
       \/ \E t \in ShowEntries :
            plexLib' = [plexLib EXCEPT !.shows =
                           IF t \in @ THEN @ \ {t} ELSE @ \cup {t}]
    /\ UNCHANGED <<plex, channel, ready, started, last_known_content, library_messages,
                   channel_messages, cyc, hist, last, lastPublished, ncycles>>

\* the loop fires whatever the manual handler is doing (both sections
\* answer, by ascending ratingKey)
OverlapTimer == TimerStart("ok", Ascending(plexLib.movies), Ascending(plexLib.shows))

\* a command arrives whatever the timer iteration is doing
OverlapManual == \E p \in Procs : \E message \in Messages : ManualStart(p, message)

\* the Discord sends and the edit of overlapping cycles, when each of them
\* returns (the deletions stay free to raise: a message may be gone)
OverlapAck ==
    \E p \in Procs :
        AckDone(p, "ok", "ok", Ascending(plexLib.movies), Ascending(plexLib.shows))

OverlapHeader == \E p \in Procs : HeaderDone(p, "ok")

OverlapChunk == \E p \in Procs : ChunkDone(p, "ok")

OverlapEdit == \E p \in Procs : EditDone(p, "ok")

OverlapNext ==
    \/ LibraryChange
    \/ LibraryChangeDuringPublish
    \/ OverlapTimer
    \/ OverlapManual
    \/ OverlapAck
    \/ Delete
    \/ OverlapHeader
    \/ OverlapChunk
    \/ OverlapEdit

OverlapSpec == OverlapInit /\ [][OverlapNext]_vars

\* ------------------------------------------------------------------------
\* Properties
\* ------------------------------------------------------------------------

\* the sends and the deletions a cycle record holds, in order
SendsOf(h) == SelectSeq(h.ops, LAMBDA r : r.op = "send")

DeletesOf(h) == SelectSeq(h.ops, LAMBDA r : r.op = "delete")

\* the cycle of task p ran its fetch and its delta
HasFetched(p) == hist[p].fetch # "none"

\* the cycle of task p reached the assignment of last_known_content
HasAssigned(p) == hist[p].assigned

C2_FetchErrorKeepsKnown ==
    \A p \in Procs :
        HasAssigned(p) /\ hist[p].fetch # "ok" /\ hist[p].pre # {}
            => last_known_content = hist[p].pre

\* a send of the cycle of task p raised
SendRaised(p) ==
    \E i \in 1..Len(hist[p].ops) :
        hist[p].ops[i].op = "send" /\ hist[p].ops[i].outcome # "ok"

\* C3 as stated: a cycle that attempted a publish in which a send raised
\* leaves last_known_content at its value before the cycle.
C3_FailedPublishKeepsKnown ==
    \A p \in Procs :
        HasAssigned(p) /\ SendRaised(p) => last_known_content = hist[p].pre

\* the delta a cycle computed, as its record and (while the publish runs) its
\* local new_items hold it
DeltaIs(p, d) ==
    /\ hist[p].new_items = d
    /\ cyc[p].pc \in {"delete", "header", "chunk"} => cyc[p].new_items = d

\* C4 as stated: with S the previous key set and T the fetched one, T's delta
\* is empty when S is empty, empty when T = S, {x} when T = S + {x} with x not
\* in S, for every S; and T \ S when S is not empty.
C4_DeltaLaws ==
    \A p \in Procs :
        HasFetched(p) =>
            LET S == hist[p].pre
                T == hist[p].fetched
            IN  /\ S = {} => DeltaIs(p, {})
                /\ T = S => DeltaIs(p, {})
                /\ \A x \in T : x \notin S /\ T = S \cup {x} => DeltaIs(p, {x})
                /\ S # {} => DeltaIs(p, T \ S)

\* C4, amended: the delta is empty when S is empty, empty when T = S, and
\* T \ S when S is not empty; so T = S + {x} with x not in S gives {x} for
\* every non-empty S (and the empty set, not {x}, when S is empty).
C4_DeltaLawsColdStart ==
    \A p \in Procs :
        HasFetched(p) =>
            LET S == hist[p].pre
                T == hist[p].fetched
            IN  /\ S = {} => DeltaIs(p, {})
                /\ T = S => DeltaIs(p, {})
                /\ \A x \in T : S # {} /\ x \notin S /\ T = S \cup {x} => DeltaIs(p, {x})
                /\ S # {} => DeltaIs(p, T \ S)

\* a cycle fetched its non-empty previous key set plus one key
C4_Witness ==
    \E p \in Procs :
        /\ HasFetched(p)
        /\ hist[p].pre # {}
        /\ \E x \in hist[p].fetched :
              /\ x \notin hist[p].pre
              /\ hist[p].fetched = hist[p].pre \cup {x}
              /\ hist[p].new_items = {x}

\* the hard message-size limit of the transport (spec section 4.3)
HardLimit == 2000

\* the list chunks of category cat a cycle sent (or tried to), in order
ListSends(h, cat) == SelectSeq(h.ops, LAMBDA r : r.op = "send" /\ r.what = cat)

RECURSIVE Flatten(_)
Flatten(rs) == IF rs = <<>> THEN <<>> ELSE rs[1].text \o Flatten(Tail(rs))

\* the item lines of those chunks, chunk boundaries and heading dropped
CategoryLines(h, cat) == SelectSeq(Flatten(ListSends(h, cat)), LAMBDA g : g.kind = "line")

\* every item line a cycle put into a list chunk
AllLines(h) ==
    LET t == Flatten(SelectSeq(h.ops, LAMBDA r : r.op = "send" /\ r.what # "header"))
    IN  {t[i] : i \in {j \in 1..Len(t) : t[j].kind = "line"}}

\* the keys of one category among a key set
KeysOf(keys, cat) == {k \in keys : k[1] = (IF cat = "Movies" THEN "movie" ELSE "show")}

\* the lines are in case-insensitive title order
InTitleOrder(ls) ==
    \A i \in 1..Len(ls) : \A j \in 1..Len(ls) :
        i < j => ~StrLess(LowerStr(ls[j].title), LowerStr(ls[i].title))

\* the items the library can hold
AllItems == {MovieItem(m) : m \in MovieEntries} \cup {ShowItem(t) : t \in ShowEntries}

\* a line carries the whole title and year of the item it is about
WholeLine(g) == \E it \in AllItems : it.key = g.key /\ it.title = g.title /\ it.year = g.year

\* deletions come before sends in a cycle's record
DeletesFirst(h) ==
    \A i \in 1..Len(h.ops) : \A j \in 1..Len(h.ops) :
        h.ops[i].op = "delete" /\ h.ops[j].op = "send" => i < j

\* C5: when a timer cycle fetches the key set the timer cycle before it
\* fetched (no other cycle having assigned in between), its delta is empty,
\* it sends and deletes nothing, and library_messages is as before.
C5_NoRepostWhenUnchanged ==
    LET h == hist["timer"]
    IN  HasAssigned("timer") /\ h.prev.kind = "timer" /\ h.fetched = h.prev.fetched
            => /\ h.new_items = {}
               /\ h.ops = <<>>
               /\ library_messages = h.libBefore

\* a second timer cycle in a row has fetched the same non-empty key set
C5_Witness ==
    LET h == hist["timer"]
    IN  /\ HasAssigned("timer")
        /\ h.prev.kind = "timer"
        /\ h.fetched = h.prev.fetched
        /\ h.fetched # {}
        /\ h.ops = <<>>

\* C6: a manual command whose acknowledgment was sent, whatever the known
\* keys and the library (an empty delta included), attempts the deletion of
\* every handle library_messages held, in order, before any send; then
\* sends the header (self.channel being set); when no send raises, sends
\* the list chunks holding every fetched item and retains exactly the handles
\* of what it sent; and sets last_known_content to the fetched keys.
C6_ManualForcesPublish ==
    LET h == hist["manual"]
    IN  HasAssigned("manual") =>
            /\ last_known_content = h.fetched
            /\ [i \in 1..Len(DeletesOf(h)) |-> DeletesOf(h)[i].id] = h.libBefore
            /\ DeletesFirst(h)
            /\ h.pub # "nochannel" => SendsOf(h) # <<>> /\ SendsOf(h)[1].what = "header"
            /\ h.pub = "ok" =>
                  /\ \A cat \in {"Movies", "TV Shows"} :
                        {g.key : g \in {CategoryLines(h, cat)[i] :
                                            i \in 1..Len(CategoryLines(h, cat))}}
                            = KeysOf(h.fetched, cat)
                  /\ library_messages = [i \in 1..Len(SendsOf(h)) |-> SendsOf(h)[i].id]
                  /\ \A i \in 1..Len(library_messages) :
                        \A j \in 1..Len(h.libBefore) : library_messages[i] # h.libBefore[j]

\* a manual command on an unchanged library (empty delta) has deleted the
\* retained messages and published again
C6_Witness ==
    LET h == hist["manual"]
    IN  /\ HasAssigned("manual")
        /\ h.pre # {}
        /\ h.fetched = h.pre
        /\ h.new_items = {}
        /\ h.libBefore # <<>>
        /\ h.pub = "ok"
        /\ Len(SendsOf(h)) >= 2

\* C7: a timer cycle that starts from an empty last_known_content and
\* fetches a non-empty key set sends and deletes nothing and sets
\* last_known_content to the fetched keys.  When the next cycle to assign is
\* a timer cycle, both fetches went through and the second fetched keys the
\* first did not, the delta is exactly those keys, the publish is attempted,
\* a line of a list chunk carries the marker iff its key is one of them (all
\* of them being listed when no send raises), and each category's lines are
\* in case-insensitive title order.
C7_ColdStartThenAddition ==
    LET h == hist["timer"]
        gained == h.fetched \ h.prev.fetched
        addition == /\ HasAssigned("timer")
                    /\ h.prev.kind = "timer" /\ h.prev.fetch = "ok" /\ h.prev.fetched # {}
                    /\ h.fetch = "ok" /\ gained # {}
    IN  /\ HasAssigned("timer") /\ h.pre = {} /\ h.fetched # {}
              => /\ h.ops = <<>>
                 /\ library_messages = h.libBefore
                 /\ last_known_content = h.fetched
        /\ addition
              => /\ h.new_items = gained
                 /\ SendsOf(h) # <<>> /\ SendsOf(h)[1].what = "header"
                 /\ \A g \in AllLines(h) : g.marker <=> g.key \in gained
                 /\ h.pub = "ok" => {g.key : g \in {x \in AllLines(h) : x.marker}} = gained
                 /\ \A cat \in {"Movies", "TV Shows"} : InTitleOrder(CategoryLines(h, cat))

\* the second timer cycle has published "Alpha" (new) before "Beta"
C7_Witness ==
    LET h == hist["timer"]
        ls == CategoryLines(h, "Movies")
    IN  /\ HasAssigned("timer")
        /\ h.prev.kind = "timer"
        /\ h.prev.fetched = {<<"movie", 1>>}
        /\ h.fetched = {<<"movie", 1>>, <<"movie", 2>>}
        /\ h.pub = "ok"
        /\ Len(ls) = 2
        /\ ls[1].key = <<"movie", 2>> /\ ls[1].marker
        /\ ls[2].key = <<"movie", 1>> /\ ~ls[2].marker

\* C8 as stated: no list chunk handed to send (the one a task is sending now,
\* or one it sent before) is longer than the hard limit.
C8_ChunksWithinHardLimit ==
    \A p \in Procs :
        /\ cyc[p].pc = "chunk" => TextLen(cyc[p].msg) <= HardLimit
        /\ \A i \in 1..Len(hist[p].ops) :
              hist[p].ops[i].op = "send" /\ hist[p].ops[i].what # "header"
                  => TextLen(hist[p].ops[i].text) <= HardLimit

\* C9: when every send of a publish returned, the lines of a category's
\* chunks, in send order, are one whole line per fetched item of the
\* category, each item once, in case-insensitive title order; a chunk holds
\* whole lines only, after the heading that opens the first chunk.
C9_ChunksReproduceItems ==
    \A p \in Procs :
        hist[p].pub = "ok" =>
            \A cat \in {"Movies", "TV Shows"} :
                LET ls == CategoryLines(hist[p], cat)
                    all == Flatten(ListSends(hist[p], cat))
                IN  /\ {ls[i].key : i \in 1..Len(ls)} = KeysOf(hist[p].fetched, cat)
                    /\ Len(ls) = Cardinality(KeysOf(hist[p].fetched, cat))
                    /\ InTitleOrder(ls)
                    /\ \A i \in 1..Len(ls) : WholeLine(ls[i])
                    /\ \A i \in 1..Len(all) : all[i].kind = "heading" => i = 1

\* a publish whose sends all returned has split the movies over two chunks
\* that both hold item lines
C9_Witness ==
    \E p \in Procs :
        LET cs == ListSends(hist[p], "Movies")
        IN  /\ hist[p].pub = "ok"
            /\ Len(cs) >= 2
            /\ \A i \in 1..Len(cs) : \E j \in 1..Len(cs[i].text) : cs[i].text[j].kind = "line"

\* C10: in every publish, a line of a list chunk carries the marker iff the
\* key of its item is in the delta the cycle computed.
C10_MarkerIffInDelta ==
    \A p \in Procs : \A g \in AllLines(hist[p]) :
        g.marker <=> g.key \in hist[p].new_items

\* one chunk holds a marked line and an unmarked one
C10_Witness ==
    \E p \in Procs : \E i \in 1..Len(hist[p].ops) :
        LET t == hist[p].ops[i].text
        IN  /\ hist[p].ops[i].op = "send"
            /\ \E j \in 1..Len(t) : t[j].kind = "line" /\ t[j].marker
            /\ \E j \in 1..Len(t) : t[j].kind = "line" /\ ~t[j].marker

\* C11 as stated: the acknowledgment of a manual command is edited to the
\* success status only if the fetch went through and every send of the
\* publish returned.
C11_SuccessOnlyIfSyncSucceeded ==
    \A p \in Procs :
        hist[p].kind = "manual" /\ hist[p].edit = "ok"
            => hist[p].fetch = "ok" /\ hist[p].pub = "ok"

\* C12 as stated: once on_ready has returned early (the loop was not
\* started), no cycle has a Plex section answer its fetch, deletes a message
\* or sends a library message.  (self.plex is set by on_ready alone, so a
\* fetch that a section answered ran after on_ready.)
C12_NoPipelineAfterFailedStartup ==
    ready /\ ~started =>
        \A p \in Procs :
            /\ hist[p].fetch \notin {"ok", "failShows"}
            /\ hist[p].ops = <<>>

\* the handles of a sequence of records
IdsOf(rs) == [i \in 1..Len(rs) |-> rs[i].id]

\* the sends of a cycle that returned
OkSendsOf(h) == SelectSeq(h.ops, LAMBDA r : r.op = "send" /\ r.outcome = "ok")

\* clear_old_messages of the cycle of task p has returned
ClearReturned(p) == hist[p].pub # "none" /\ cyc[p].pc # "delete"

\* C13: once clear_old_messages has returned, the deletion of every handle
\* library_messages held was attempted, each once and in order, whether or
\* not an earlier deletion raised; and library_messages is empty until the
\* first send of the publish returns.
C13_EveryDeletionAttempted ==
    \A p \in Procs :
        ClearReturned(p) =>
            /\ IdsOf(DeletesOf(hist[p])) = hist[p].libBefore
            /\ OkSendsOf(hist[p]) = <<>> => library_messages = <<>>

\* clear_old_messages has just returned after a deletion that raised and was
\* followed by the attempts on the later handles
C13_Witness ==
    \E p \in Procs :
        /\ cyc[p].pc = "header"
        /\ hist[p].delFailed # 0
        /\ hist[p].delFailed < Len(hist[p].libBefore)
        /\ Len(DeletesOf(hist[p])) = Len(hist[p].libBefore)
        /\ library_messages = <<>>

\* the publish of the cycle of task p has returned
PublishReturned(p) == hist[p].pub # "none" /\ cyc[p].pc \in {"idle", "edit", "reply"}

\* a send of a Movies chunk of the cycle of task p raised
MoviesSendRaised(p) ==
    \E i \in 1..Len(hist[p].ops) :
        /\ hist[p].ops[i].op = "send"
        /\ hist[p].ops[i].what = "Movies"
        /\ hist[p].ops[i].outcome # "ok"

\* C14 as stated: when a send of a Movies chunk raised (Forbidden or any other
\* exception), no Movies chunk is sent after it, and the publish still sends
\* the TV Shows list when shows were fetched.
C14_MoviesFailureKeepsShows ==
    \A p \in Procs :
        PublishReturned(p) /\ MoviesSendRaised(p) =>
            /\ \A i \in 1..Len(hist[p].ops) : \A j \in 1..Len(hist[p].ops) :
                  /\ hist[p].ops[i].what = "Movies" /\ hist[p].ops[i].outcome # "ok"
                  /\ i < j
                  => hist[p].ops[j].what # "Movies"
            /\ KeysOf(hist[p].fetched, "TV Shows") # {} => ListSends(hist[p], "TV Shows") # <<>>

\* C15: after a publish that no other cycle overlaps has returned,
\* library_messages is the handles of the sends of that cycle that returned,
\* in send order, and holds no handle retained before the cycle; also when
\* some sends or deletions of the cycle raised.
C15_RetainedIsThisCyclesSends ==
    \A p \in Procs :
        PublishReturned(p) =>
            /\ library_messages = IdsOf(OkSendsOf(hist[p]))
            /\ \A i \in 1..Len(library_messages) : \A j \in 1..Len(hist[p].libBefore) :
                  library_messages[i] # hist[p].libBefore[j]

\* a partial publish has returned: it replaced retained handles, one of its
\* deletions raised, two of its sends returned and a later one raised
C15_Witness ==
    \E p \in Procs :
        /\ PublishReturned(p)
        /\ hist[p].libBefore # <<>>
        /\ hist[p].delFailed # 0
        /\ SendRaised(p)
        /\ Len(OkSendsOf(hist[p])) >= 2
        /\ Len(library_messages) >= 2

\* where a send stands in the order of a publish
RankOf(what) == CASE what = "header" -> 0 [] what = "Movies" -> 1 [] OTHER -> 2

\* C16: in the record of every cycle the deletions come before the sends and,
\* once a send was made, every handle retained before the cycle has had its
\* deletion attempted; the first send is the header, sent once, every Movies
\* chunk comes before every TV Shows chunk; and when every send returned the
\* Movies chunks are there iff movies were fetched, the TV Shows chunks iff
\* shows were.
C16_OperationsOrdered ==
    \A p \in Procs :
        LET h == hist[p]
            ss == SendsOf(h)
        IN  /\ DeletesFirst(h)
            /\ ss # <<>> => IdsOf(DeletesOf(h)) = h.libBefore
            /\ \A i \in 1..Len(ss) : (ss[i].what = "header") <=> (i = 1)
            /\ \A i \in 1..Len(ss) : \A j \in 1..Len(ss) :
                  i < j => RankOf(ss[i].what) <= RankOf(ss[j].what)
            /\ h.pub = "ok" =>
                  \A cat \in {"Movies", "TV Shows"} :
                      (ListSends(h, cat) # <<>>) <=> (KeysOf(h.fetched, cat) # {})

\* a publish has deleted the retained messages, then sent the header, a Movies
\* chunk and a TV Shows chunk
C16_Witness ==
    \E p \in Procs :
        LET h == hist[p]
        IN  /\ h.pub = "ok"
            /\ PublishReturned(p)
            /\ DeletesOf(h) # <<>>
            /\ ListSends(h, "Movies") # <<>>
            /\ ListSends(h, "TV Shows") # <<>>

\* the handles library_messages holds
Tracked == {library_messages[i] : i \in 1..Len(library_messages)}

\* both tasks ran a publish whose sends and deletions all returned, and both
\* have completed (the record of a cycle is dropped when another cycle
\* starts after it has ended, so two full records are of cycles that
\* overlapped)
BothPublishedCleanly ==
    /\ AllIdle
    /\ \A p \in Procs : hist[p].pub = "ok" /\ hist[p].delFailed = 0 /\ HasAssigned(p)

\* C17 as stated: once a timer cycle and a manual cycle that overlapped have
\* completed, every send and deletion having returned, every library message
\* in the channel is tracked in library_messages.
C17_NoOrphansUnderOverlap ==
    BothPublishedCleanly => channel_messages \subseteq Tracked

\* C18 as stated: once a timer cycle and a manual cycle that overlapped have
\* completed, last_known_content is the key set of the one that fetched last.
C18_LatestFetchWins ==
    AllIdle /\ (\A p \in Procs : HasAssigned(p)) =>
        \A p \in Procs :
            (\A q \in Procs : hist[q].at <= hist[p].at) => last_known_content = hist[p].fetched

\* C19 as stated: in cycles that do not overlap, a key is in the delta of a
\* cycle (its item is marked new in the publish) only if the item was absent
\* from the library when the cycle before it made its fetch.
C19_NoSpuriousNewItems ==
    \A p \in Procs :
        HasFetched(p) /\ hist[p].prev.kind # "none" =>
            /\ \A x \in hist[p].new_items : x \notin hist[p].prev.lib
            /\ \A g \in AllLines(hist[p]) : g.marker => g.key \notin hist[p].prev.lib

====
